---- MODULE Spec2Model ----
(***************************************************************************)
(* Model of backend/app.py: the chord extractor extract_chords (a pure     *)
(* function over a transcript, modelled character by character, with the   *)
(* four regular expressions of the source matched as Python's re module    *)
(* matches them) and the /transcribe request handler.                      *)
(*                                                                         *)
(* A string is a sequence of one-character strings.  Offsets recorded in   *)
(* `positions` are Python's 0-based match.start(); indices into a text are *)
(* TLA+'s 1-based ones.                                                    *)
(***************************************************************************)
EXTENDS Integers, Sequences, FiniteSets, TLC

\* ------------------------------------------------------------------------
\* Bounds of the model
\* ------------------------------------------------------------------------

\* A transcript is at most MaxMentions chord mentions joined by one space.
MaxMentions == 2

\* A transcript is at most MaxLen characters long.
MaxLen == 14

\* Number of /transcribe requests in flight.
NumRequests == 2

\* ------------------------------------------------------------------------
\* Characters: str.lower, str.upper, and the classes of Python's re
\* ------------------------------------------------------------------------

\* What lies before the first and after the last character of a text.
NoChar == "<none>"

\* U+017F LATIN SMALL LETTER LONG S: a lower-case letter whose upper case is
\* "S" and that re.IGNORECASE lets the pattern letter "s" match.
LongS == "<U+017F>"

LowerAlpha ==
  <<"a","b","c","d","e","f","g","h","i","j","k","l","m",
    "n","o","p","q","r","s","t","u","v","w","x","y","z">>

UpperAlpha ==
  <<"A","B","C","D","E","F","G","H","I","J","K","L","M",
    "N","O","P","Q","R","S","T","U","V","W","X","Y","Z">>

Digits == {"0","1","2","3","4","5","6","7","8","9"}

IsLower(c) == \E i \in 1..26 : LowerAlpha[i] = c

IsUpper(c) == \E i \in 1..26 : UpperAlpha[i] = c

\* str.lower() on one character.
ToLower(c) ==
  IF IsUpper(c) THEN LowerAlpha[CHOOSE i \in 1..26 : UpperAlpha[i] = c] ELSE c

\* str.upper() on one character.
ToUpper(c) ==
  IF IsLower(c) THEN UpperAlpha[CHOOSE i \in 1..26 : LowerAlpha[i] = c]
  ELSE IF c = LongS THEN "S" ELSE c

\* The case folding re.IGNORECASE compares with: a pattern letter matches
\* both of its cases, and "s" also matches the long s.
Fold(c) == IF c = LongS THEN "s" ELSE ToLower(c)

\* \d
IsDigit(c) == c \in Digits

\* \s
IsSpace(c) == c \in {" ", "\t", "\n"}

\* \w
IsWord(c) == IsLower(c) \/ IsUpper(c) \/ IsDigit(c) \/ c = "_" \/ c = LongS

At(t, i) == IF i >= 1 /\ i <= Len(t) THEN t[i] ELSE NoChar

\* \b between t[i-1] and t[i].
WordBoundary(t, i) == IsWord(At(t, i - 1)) # IsWord(At(t, i))

\* str.lower() and str.upper() on a string.
LowerStr(s) == [k \in 1..Len(s) |-> ToLower(s[k])]

UpperStr(s) == [k \in 1..Len(s) |-> ToUpper(s[k])]

\* A capitalize that upper-cases the first character and keeps the rest.
CapitalizeKeepRest(s) == [k \in 1..Len(s) |-> IF k = 1 THEN ToUpper(s[k]) ELSE s[k]]

\* str.capitalize(): first character upper-cased, the rest lower-cased.
Capitalize(s) == [k \in 1..Len(s) |-> IF k = 1 THEN ToUpper(s[k]) ELSE ToLower(s[k])]

\* str.endswith
EndsWith(s, suf) ==
  /\ Len(s) >= Len(suf)
  /\ SubSeq(s, Len(s) - Len(suf) + 1, Len(s)) = suf

\* ------------------------------------------------------------------------
\* The words of the patterns
\* ------------------------------------------------------------------------

W_flat == <<"f","l","a","t">>
W_sharp == <<"s","h","a","r","p">>
W_major == <<"m","a","j","o","r">>
W_minor == <<"m","i","n","o","r">>
W_maj == <<"m","a","j">>
W_min == <<"m","i","n">>
W_diminished == <<"d","i","m","i","n","i","s","h","e","d">>
W_augmented == <<"a","u","g","m","e","n","t","e","d">>

\* (flat|sharp)
ModifierWords == <<W_flat, W_sharp>>

\* (major|minor|maj|min|diminished|augmented), in the pattern's order
QualityWords == <<W_major, W_minor, W_maj, W_min, W_diminished, W_augmented>>

\* (m|maj|min|dim|aug|sus[24]|7|9|11|13|add[249]|m7|maj7|dim7|aug7), in the
\* pattern's order, the character classes [24] and [249] written out
SuffixWords ==
  << <<"m">>, W_maj, W_min, <<"d","i","m">>, <<"a","u","g">>,
     <<"s","u","s","2">>, <<"s","u","s","4">>,
     <<"7">>, <<"9">>, <<"1","1">>, <<"1","3">>,
     <<"a","d","d","2">>, <<"a","d","d","4">>, <<"a","d","d","9">>,
     <<"m","7">>, <<"m","a","j","7">>, <<"d","i","m","7">>, <<"a","u","g","7">> >>

\* ------------------------------------------------------------------------
\* Matching, as re does it under re.IGNORECASE
\* ------------------------------------------------------------------------

\* A literal of the pattern (lower-case) matches the text at index i.
MatchesLit(t, i, lit) ==
  /\ i + Len(lit) - 1 <= Len(t)
  /\ \A k \in 1..Len(lit) : Fold(t[i + k - 1]) = lit[k]

\* [A-G]
IsNoteLetter(c) == Fold(c) \in {"a","b","c","d","e","f","g"}

\* [#b]
IsAccidental(c) == c = "#" \/ Fold(c) = "b"

RECURSIVE SkipSpaces(_, _)
\* \s* (greedy): the index after the run of spaces that starts at i.
SkipSpaces(t, i) == IF IsSpace(At(t, i)) THEN SkipSpaces(t, i + 1) ELSE i

RECURSIVE SkipDigits(_, _)
\* \d* (greedy): the index after the run of digits that starts at i.
SkipDigits(t, i) == IF IsDigit(At(t, i)) THEN SkipDigits(t, i + 1) ELSE i

\* No match: a match never ends at index 0.
NoMatch == [end |-> 0]

\* (?:\s*(\d+))?\b after a quality word that ends before index e: the greedy
\* group first (a shorter run of digits is followed by a digit, so \b fails
\* there), then the empty alternative.
NumberTail(t, e) ==
  LET s == SkipSpaces(t, e)
      d == SkipDigits(t, s)
  IN  IF d > s /\ WordBoundary(t, d)
        THEN [end |-> d, number |-> SubSeq(t, s, d - 1)]
        ELSE IF WordBoundary(t, e)
               THEN [end |-> e, number |-> <<>>]
               ELSE NoMatch

RECURSIVE QualityTail(_, _, _)
\* (major|minor|...)(?:\s*(\d+))?\b at index i: the first alternative, from
\* the k-th on, after which the rest of the pattern matches.
QualityTail(t, i, k) ==
  IF k > Len(QualityWords) THEN NoMatch
  ELSE LET w == QualityWords[k]
           r == IF MatchesLit(t, i, w) THEN NumberTail(t, i + Len(w)) ELSE NoMatch
       IN  IF r.end # 0
             THEN [end |-> r.end, number |-> r.number,
                   quality |-> SubSeq(t, i, i + Len(w) - 1)]
             ELSE QualityTail(t, i, k + 1)

RECURSIVE ModifierAt(_, _, _)
\* (flat|sharp) at index i: the word matched, or <<>>.
ModifierAt(t, i, k) ==
  IF k > Len(ModifierWords) THEN <<>>
  ELSE IF MatchesLit(t, i, ModifierWords[k]) THEN ModifierWords[k]
  ELSE ModifierAt(t, i, k + 1)

\* A match of modifier_phrase_pattern that starts at index i.
modifier_phrase_pattern(t, i) ==
  LET j == SkipSpaces(t, i + 1)
      w == ModifierAt(t, j, 1)
      k == j + Len(w)
      q == SkipSpaces(t, k)
      r == QualityTail(t, q, 1)
  IN  IF /\ WordBoundary(t, i) /\ IsNoteLetter(At(t, i))
         /\ j > i + 1 /\ w # <<>> /\ q > k /\ r.end # 0
        THEN [start |-> i, end |-> r.end, note |-> SubSeq(t, i, i),
              modifier |-> SubSeq(t, j, k - 1), quality |-> r.quality,
              number |-> r.number]
        ELSE NoMatch

\* A match of flat_sharp_pattern that starts at index i.
flat_sharp_pattern(t, i) ==
  LET j == SkipSpaces(t, i + 1)
      w == ModifierAt(t, j, 1)
      k == j + Len(w)
  IN  IF /\ WordBoundary(t, i) /\ IsNoteLetter(At(t, i))
         /\ j > i + 1 /\ w # <<>> /\ WordBoundary(t, k)
        THEN [start |-> i, end |-> k, note |-> SubSeq(t, i, i),
              modifier |-> SubSeq(t, j, k - 1)]
        ELSE NoMatch

\* phrase_pattern at index i.  [#b]? is greedy; without the accidental the
\* \s+ would have to match it, so only the greedy choice can succeed.
phrase_pattern(t, i) ==
  LET n == IF IsAccidental(At(t, i + 1)) THEN i + 2 ELSE i + 1
      j == SkipSpaces(t, n)
      r == QualityTail(t, j, 1)
  IN  IF /\ WordBoundary(t, i) /\ IsNoteLetter(At(t, i))
         /\ j > n /\ r.end # 0
        THEN [start |-> i, end |-> r.end, note |-> SubSeq(t, i, n - 1),
              quality |-> r.quality, number |-> r.number]
        ELSE NoMatch

RECURSIVE SuffixTail(_, _, _)
\* (m|maj|...)?\b at index n: the first alternative, from the k-th on, that
\* is followed by a word boundary, then the empty alternative.
SuffixTail(t, n, k) ==
  IF k > Len(SuffixWords)
    THEN IF WordBoundary(t, n) THEN [end |-> n] ELSE NoMatch
  ELSE LET w == SuffixWords[k]
       IN  IF MatchesLit(t, n, w) /\ WordBoundary(t, n + Len(w))
             THEN [end |-> n + Len(w)]
             ELSE SuffixTail(t, n, k + 1)

\* chord_pattern at index i: with the accidental first ([#b]? is greedy),
\* then without it.
chord_pattern(t, i) ==
  LET withAcc == IF IsAccidental(At(t, i + 1)) THEN SuffixTail(t, i + 2, 1) ELSE NoMatch
      without == SuffixTail(t, i + 1, 1)
      n == IF withAcc.end # 0 THEN i + 2 ELSE i + 1
      r == IF withAcc.end # 0 THEN withAcc ELSE without
  IN  IF WordBoundary(t, i) /\ IsNoteLetter(At(t, i)) /\ r.end # 0
        THEN [start |-> i, end |-> r.end, note |-> SubSeq(t, i, n - 1),
              quality |-> SubSeq(t, n, r.end - 1)]
        ELSE NoMatch

\* The pattern of each layer.
MatchAt(layer, t, i) ==
  CASE layer = "A" -> modifier_phrase_pattern(t, i)
    [] layer = "B" -> flat_sharp_pattern(t, i)
    [] layer = "C" -> phrase_pattern(t, i)
    [] layer = "D" -> chord_pattern(t, i)

RECURSIVE FindIterFrom(_, _, _)
\* re.finditer: the non-overlapping matches, scanning from index i.
FindIterFrom(layer, t, i) ==
  IF i > Len(t) THEN <<>>
  ELSE LET m == MatchAt(layer, t, i)
       IN  IF m.end # 0
             THEN <<m>> \o FindIterFrom(layer, t, m.end)
             ELSE FindIterFrom(layer, t, i + 1)

FindIter(layer, t) == FindIterFrom(layer, t, 1)

\* ------------------------------------------------------------------------
\* extract_chords: the state of one call
\* ------------------------------------------------------------------------

VARIABLES
  transcript,       \* the argument of extract_chords
  text,             \* the local `text`: the transcript with hyphens normalized
  positions,        \* the list `positions`; each entry also remembers its layer
  flat_sharp_notes, \* the set `flat_sharp_notes`
  phrase_notes,     \* the set `phrase_notes`
  chord,            \* the local `chord`, which every loop assigns and none resets
  unique_chords,    \* the list `unique_chords`, the value returned
  pc,               \* where the call is
  hpc,              \* /transcribe: where each request's handler is
  tmp_files,        \* /transcribe: the temporary files that exist
  created,          \* /transcribe: the requests whose temporary file was created
  unlinks,          \* /transcribe: how many times each request called os.unlink
  response,         \* /transcribe: the status code each request was answered with
  transcribed_text  \* /transcribe: the local `transcribed_text` of each request

vars ==
  <<transcript, text, positions, flat_sharp_notes, phrase_notes, chord,
    unique_chords, pc, hpc, tmp_files, created, unlinks, response,
    transcribed_text>>

extractVars ==
  <<transcript, text, positions, flat_sharp_notes, phrase_notes, chord,
    unique_chords, pc>>

handlerVars == <<hpc, tmp_files, created, unlinks, response, transcribed_text>>

\* The value of a local that no statement has assigned yet.
Unbound == <<"<unbound>">>

\* U+2013 EN DASH and U+2014 EM DASH.
EnDash == "<U+2013>"

EmDash == "<U+2014>"

\* re.sub(r'[-' EnDash EmDash ']', ' ', text)
NormalizeHyphens(t) ==
  [k \in 1..Len(t) |-> IF t[k] \in {"-", EnDash, EmDash} THEN " " ELSE t[k]]

\* match.start(): the 0-based offset of a match.
Start(m) == m.start - 1

\* The locals the four loops read and write.
Locals(ps, fs, pn, ch) ==
  [positions |-> ps, flat_sharp_notes |-> fs, phrase_notes |-> pn,
   chord |-> ch, raised |-> FALSE]

\* The body of the loop over modifier_phrase_pattern (Layer A).
ModifierPhraseBody(st, m) ==
  LET note == Capitalize(m.note)
      modifier == LowerStr(m.modifier)
      quality == LowerStr(m.quality)
      number == m.number
      base == note \o (IF modifier = W_flat THEN <<"b">> ELSE <<"#">>)
      c0 == IF quality \in {W_minor, W_min}
              THEN base \o <<"m">>
              ELSE base \o (IF number # <<>> THEN W_maj ELSE <<>>)
      c1 == IF number # <<>> THEN c0 \o number ELSE c0
  IN  [st EXCEPT !.flat_sharp_notes = @ \cup {LowerStr(note)},
                 !.phrase_notes = @ \cup {LowerStr(base)},
                 !.chord = c1,
                 !.positions = Append(@, [pos |-> Start(m), chord |-> c1, layer |-> "A"])]

\* The body of the loop over flat_sharp_pattern (Layer B).  The if/elif has
\* no else: a modifier that is neither 'flat' nor 'sharp' leaves `chord` as
\* it was, and reading it while unbound raises UnboundLocalError.
FlatSharpBody(st, m) ==
  IF \E p \in 1..Len(st.positions) :
       LET d == Start(m) - st.positions[p].pos
       IN  (IF d < 0 THEN -d ELSE d) < 1
    THEN st
    ELSE LET note == Capitalize(m.note)
             modifier == LowerStr(m.modifier)
             c1 == IF modifier = W_flat THEN note \o <<"b">>
                   ELSE IF modifier = W_sharp THEN note \o <<"#">>
                   ELSE st.chord
             st1 == [st EXCEPT !.flat_sharp_notes = @ \cup {LowerStr(note)}]
         IN  IF c1 = Unbound
               THEN [st1 EXCEPT !.raised = TRUE]
               ELSE [st1 EXCEPT
                       !.chord = c1,
                       !.positions = Append(@, [pos |-> Start(m), chord |-> c1, layer |-> "B"])]

\* The body of the loop over phrase_pattern (Layer C).
PhraseBody(st, m) ==
  LET note == Capitalize(m.note)
      quality == LowerStr(m.quality)
      number == m.number
      c0 == IF quality \in {W_minor, W_min}
              THEN note \o <<"m">>
              ELSE IF number # <<>> THEN note \o W_maj ELSE note
      c1 == IF number # <<>> THEN c0 \o number ELSE c0
  IN  IF LowerStr(note) \notin st.flat_sharp_notes
        THEN [st EXCEPT
                !.phrase_notes = @ \cup {LowerStr(note)},
                !.chord = c1,
                !.positions = Append(@, [pos |-> Start(m), chord |-> c1, layer |-> "C"])]
        ELSE st

\* A rewriting that has lost its endswith('maj') branch.
CanonicalKeepMaj(g0) ==
  LET c == Capitalize(g0)
  IN  IF EndsWith(c, W_min) THEN SubSeq(c, 1, Len(c) - 3) \o <<"m">> ELSE c

\* chord.capitalize(), then the endswith('maj') / endswith('min') rewriting.
Canonical(g0) ==
  LET c == Capitalize(g0)
  IN  IF EndsWith(c, W_maj) THEN SubSeq(c, 1, Len(c) - 3)
      ELSE IF EndsWith(c, W_min) THEN SubSeq(c, 1, Len(c) - 3) \o <<"m">>
      ELSE c

\* The body of the loop over chord_pattern (Layer D).
ChordBody(st, m) ==
  LET note == m.note
      quality == m.quality
  IN  IF /\ \/ LowerStr(note) \in st.phrase_notes
            \/ LowerStr(note) \in st.flat_sharp_notes
         /\ quality = <<>>
        THEN st
        ELSE LET c1 == Canonical(note \o quality)
             IN  [st EXCEPT
                    !.chord = c1,
                    !.positions = Append(@, [pos |-> Start(m), chord |-> c1, layer |-> "D"])]

LoopBody(layer, st, m) ==
  CASE layer = "A" -> ModifierPhraseBody(st, m)
    [] layer = "B" -> FlatSharpBody(st, m)
    [] layer = "C" -> PhraseBody(st, m)
    [] layer = "D" -> ChordBody(st, m)

RECURSIVE LoopFrom(_, _, _, _)
\* One for loop: the body on each match in turn, until one raises.
LoopFrom(layer, st, ms, k) ==
  IF k > Len(ms) \/ st.raised THEN st
  ELSE LoopFrom(layer, LoopBody(layer, st, ms[k]), ms, k + 1)

\* `for match in re.finditer(pattern, text, re.IGNORECASE): ...`
Layer(layer, t, st) == LoopFrom(layer, st, FindIter(layer, t), 1)

RECURSIVE InsertLast(_, _)
\* p after every entry whose offset is not greater.
InsertLast(sorted, p) ==
  IF sorted = <<>> THEN <<p>>
  ELSE LET l == sorted[Len(sorted)]
       IN  IF l.pos <= p.pos THEN Append(sorted, p)
           ELSE Append(InsertLast(SubSeq(sorted, 1, Len(sorted) - 1), p), l)

RECURSIVE InsertFirst(_, _)
\* p before every entry whose offset is not smaller.
InsertFirst(sorted, p) ==
  IF sorted = <<>> THEN <<p>>
  ELSE LET l == sorted[Len(sorted)]
       IN  IF l.pos < p.pos THEN Append(sorted, p)
           ELSE Append(InsertFirst(SubSeq(sorted, 1, Len(sorted) - 1), p), l)

RECURSIVE SortUnstableFrom(_, _, _)
SortUnstableFrom(ps, k, acc) ==
  IF k > Len(ps) THEN acc ELSE SortUnstableFrom(ps, k + 1, InsertFirst(acc, ps[k]))

\* A sort by offset that puts the later of two equal offsets first.
SortByPosUnstable(ps) == SortUnstableFrom(ps, 1, <<>>)

RECURSIVE SortFrom(_, _, _)
SortFrom(ps, k, acc) ==
  IF k > Len(ps) THEN acc ELSE SortFrom(ps, k + 1, InsertLast(acc, ps[k]))

\* positions.sort(key=lambda x: x[0]): list.sort is stable.
SortByPos(ps) == SortFrom(ps, 1, <<>>)

RECURSIVE DedupAdjacentFrom(_, _, _)
DedupAdjacentFrom(ps, k, out) ==
  IF k > Len(ps) THEN out
  ELSE DedupAdjacentFrom(ps, k + 1,
         IF k > 1 /\ ps[k - 1].chord = ps[k].chord THEN out ELSE Append(out, ps[k].chord))

\* A dedupe that drops a chord only when it repeats the entry before it.
DedupAdjacent(ps) == DedupAdjacentFrom(ps, 1, <<>>)

RECURSIVE DedupFrom(_, _, _, _)
DedupFrom(ps, k, seen, out) ==
  IF k > Len(ps) THEN out
  ELSE IF ps[k].chord \in seen THEN DedupFrom(ps, k + 1, seen, out)
  ELSE DedupFrom(ps, k + 1, seen \cup {ps[k].chord}, Append(out, ps[k].chord))

\* The loop that keeps the first occurrence of each chord.
Dedup(ps) == DedupFrom(ps, 1, {}, <<>>)

\* What a call that raised returns: nothing; this value stands for it.
Raised == << <<"<raised>">> >>

\* The layers in the order the function runs them.
LayerOrder == <<"A", "B", "C", "D">>

RECURSIVE RunFrom(_, _, _)
\* The loops from the k-th on, until one raises.
RunFrom(t, st, k) ==
  IF k > Len(LayerOrder) \/ st.raised THEN st
  ELSE RunFrom(t, Layer(LayerOrder[k], t, st), k + 1)

\* The four loops in turn, on a normalized text.
RunLayers(t) == RunFrom(t, Locals(<<>>, {}, {}, Unbound), 1)

\* extract_chords as a function of its argument.
extract_chords(t) ==
  LET s == RunLayers(NormalizeHyphens(t))
  IN  IF s.raised THEN Raised ELSE Dedup(SortByPos(s.positions))

\* ------------------------------------------------------------------------
\* The transcripts extract_chords is called with
\* ------------------------------------------------------------------------

\* The note a mention starts with.
NoteSamples == { <<"C">>, <<"b">> }

\* What follows the note: nothing, an inline accidental or quality, a spoken
\* modifier, a spoken quality, with and without a number, in either case.
SuffixSamples ==
  { <<>>,
    <<"#">>,
    <<"b">>,
    <<"m">>,
    <<"m","a","j">>,
    <<"M","I","N">>,
    <<"m","a","j","7">>,
    <<" ","f","l","a","t">>,
    <<"-","s","h","a","r","p">>,
    <<" ","m","i","n","o","r">>,
    <<" ","m","a","j">>,
    <<" ","M","a","j"," ","7">>,
    <<" ","f","l","a","t"," ","m","i","n">>,
    <<" ","s","h","a","r","p"," ","m","a","j","7">>,
    <<"#"," ","m","i","n","o","r">>,
    <<" ",LongS,"h","a","r","p">> }

Mentions == { n \o s : n \in NoteSamples, s \in SuffixSamples }

RECURSIVE JoinFrom(_, _)
\* ' '.join(ws[k:])
JoinFrom(ws, k) ==
  IF k > Len(ws) THEN <<>>
  ELSE IF k = Len(ws) THEN ws[k]
  ELSE ws[k] \o <<" ">> \o JoinFrom(ws, k + 1)

\* ' '.join(ws)
Join(ws) == JoinFrom(ws, 1)

Texts ==
  { t \in { Join(ms) : ms \in UNION { [1..n -> Mentions] : n \in 0..MaxMentions } } :
      Len(t) <= MaxLen }

\* ------------------------------------------------------------------------
\* extract_chords, step by step
\* ------------------------------------------------------------------------

Requests == 1..NumRequests

HandlerIdle ==
  /\ hpc = [r \in Requests |-> "idle"]
  /\ tmp_files = {}
  /\ created = {}
  /\ unlinks = [r \in Requests |-> 0]
  /\ response = [r \in Requests |-> 0]
  /\ transcribed_text = [r \in Requests |-> <<>>]

Init ==
  /\ transcript \in Texts
  /\ text = transcript
  /\ positions = <<>>
  /\ flat_sharp_notes = {}
  /\ phrase_notes = {}
  /\ chord = Unbound
  /\ unique_chords = <<>>
  /\ pc = "normalize"
  /\ HandlerIdle

\* The locals as a record, and back.
Now == Locals(positions, flat_sharp_notes, phrase_notes, chord)

Becomes(st, next) ==
  /\ positions' = st.positions
  /\ flat_sharp_notes' = st.flat_sharp_notes
  /\ phrase_notes' = st.phrase_notes
  /\ chord' = st.chord
  /\ pc' = IF st.raised THEN "raised" ELSE next
  /\ UNCHANGED <<transcript, text, unique_chords, handlerVars>>

Normalize ==
  /\ pc = "normalize"
  /\ text' = NormalizeHyphens(text)
  /\ pc' = "A"
  /\ UNCHANGED <<transcript, positions, flat_sharp_notes, phrase_notes, chord,
                 unique_chords, handlerVars>>

LayerA == pc = "A" /\ Becomes(Layer("A", text, Now), "B")

LayerB == pc = "B" /\ Becomes(Layer("B", text, Now), "C")

LayerC == pc = "C" /\ Becomes(Layer("C", text, Now), "D")

LayerD == pc = "D" /\ Becomes(Layer("D", text, Now), "sort")

SortAndDedup ==
  /\ pc = "sort"
  /\ positions' = SortByPos(positions)
  /\ unique_chords' = Dedup(positions')
  /\ pc' = "done"
  /\ UNCHANGED <<transcript, text, flat_sharp_notes, phrase_notes, chord, handlerVars>>

Next ==
  \/ Normalize
  \/ LayerA
  \/ LayerB
  \/ LayerC
  \/ LayerD
  \/ SortAndDedup

Spec == Init /\ [][Next]_vars

\* ------------------------------------------------------------------------
\* The /transcribe handler
\* ------------------------------------------------------------------------

\* What model.transcribe returns in the model.
TranscriptSamples ==
  { <<>>, <<"C">>, <<"C"," ",LongS,"h","a","r","p">> }

ExtractorIdle ==
  /\ transcript = <<>>
  /\ text = <<>>
  /\ positions = <<>>
  /\ flat_sharp_notes = {}
  /\ phrase_notes = {}
  /\ chord = Unbound
  /\ unique_chords = <<>>
  /\ pc = "none"

InitT == ExtractorIdle /\ HandlerIdle

\* `if 'audio' not in request.files: return ..., 400`
Receive(r) ==
  /\ hpc[r] = "idle"
  /\ \E hasAudio \in BOOLEAN :
       IF hasAudio
         THEN hpc' = [hpc EXCEPT ![r] = "mktemp"] /\ UNCHANGED response
         ELSE /\ hpc' = [hpc EXCEPT ![r] = "done"]
              /\ response' = [response EXCEPT ![r] = 400]
  /\ UNCHANGED <<tmp_files, created, unlinks, transcribed_text, extractVars>>

\* tempfile.NamedTemporaryFile(delete=False, suffix='.webm'): the file exists
\* from here on, under a name no other request has.
MakeTemp(r) ==
  /\ hpc[r] = "mktemp"
  /\ tmp_files' = tmp_files \cup {r}
  /\ created' = created \cup {r}
  /\ hpc' = [hpc EXCEPT ![r] = "save"]
  /\ UNCHANGED <<unlinks, response, transcribed_text, extractVars>>

\* audio_file.save(tmp_file.name), inside the with block and before the inner
\* try: when it raises, the outer except answers 500.
Save(r) ==
  /\ hpc[r] = "save"
  /\ \E ok \in BOOLEAN :
       IF ok
         THEN hpc' = [hpc EXCEPT ![r] = "transcribe"] /\ UNCHANGED response
         ELSE /\ hpc' = [hpc EXCEPT ![r] = "done"]
              /\ response' = [response EXCEPT ![r] = 500]
  /\ UNCHANGED <<tmp_files, created, unlinks, transcribed_text, extractVars>>

\* model.transcribe(tmp_path) and result["text"], inside the inner try.
Transcribe(r) ==
  /\ hpc[r] = "transcribe"
  /\ \/ \E t \in TranscriptSamples :
          /\ transcribed_text' = [transcribed_text EXCEPT ![r] = t]
          /\ hpc' = [hpc EXCEPT ![r] = "extract"]
     \/ /\ hpc' = [hpc EXCEPT ![r] = "finally_500"]
        /\ UNCHANGED transcribed_text
  /\ UNCHANGED <<tmp_files, created, unlinks, response, extractVars>>

\* extract_chords(transcribed_text), format_chord_chart and the return, inside
\* the inner try.
ExtractAndFormat(r) ==
  /\ hpc[r] = "extract"
  /\ hpc' = [hpc EXCEPT ![r] =
               IF extract_chords(transcribed_text[r]) = Raised
                 THEN "finally_500" ELSE "finally_200"]
  /\ UNCHANGED <<tmp_files, created, unlinks, response, transcribed_text, extractVars>>

\* finally: os.unlink(tmp_path); then the response goes out.
Finally(r) ==
  /\ hpc[r] \in {"finally_200", "finally_500"}
  /\ tmp_files' = tmp_files \ {r}
  /\ unlinks' = [unlinks EXCEPT ![r] = @ + 1]
  /\ response' = [response EXCEPT ![r] = IF hpc[r] = "finally_200" THEN 200 ELSE 500]
  /\ hpc' = [hpc EXCEPT ![r] = "done"]
  /\ UNCHANGED <<created, transcribed_text, extractVars>>

NextT ==
  \/ \E r \in Requests : Receive(r)
  \/ \E r \in Requests : MakeTemp(r)
  \/ \E r \in Requests : Save(r)
  \/ \E r \in Requests : Transcribe(r)
  \/ \E r \in Requests : ExtractAndFormat(r)
  \/ \E r \in Requests : Finally(r)

SpecT == InitT /\ [][NextT]_vars

\* ------------------------------------------------------------------------
\* Properties
\* ------------------------------------------------------------------------

\* The call has returned.
Done == pc = "done"

\* The chords of a list of (offset, chord) entries.
ChordsOf(ps) == { ps[k].chord : k \in 1..Len(ps) }

\* The elements of a list.
Range(s) == { s[k] : k \in 1..Len(s) }

\* The smallest offset at which some layer recorded chord c.
MinOff(c) ==
  LET offs == { positions[k].pos : k \in { n \in 1..Len(positions) : positions[n].chord = c } }
  IN  CHOOSE o \in offs : \A o2 \in offs : o <= o2

\* The place of a layer in the order the layers run.
Rank(layer) == CHOOSE k \in 1..Len(LayerOrder) : LayerOrder[k] = layer

\* The earliest layer that recorded chord c at offset o.
RankAt(c, o) ==
  LET rs == { Rank(positions[k].layer) :
                k \in { n \in 1..Len(positions) :
                          positions[n].chord = c /\ positions[n].pos = o } }
  IN  CHOOSE r \in rs : \A r2 \in rs : r <= r2

\* Chord x goes before chord y: smaller first offset, or the same first
\* offset and an earlier layer.
Before(x, y) ==
  \/ MinOff(x) < MinOff(y)
  \/ MinOff(x) = MinOff(y) /\ RankAt(x, MinOff(x)) < RankAt(y, MinOff(y))

\* C1: the list extract_chords returns holds no chord symbol twice.
NoDuplicateChords ==
  Done => \A i, j \in 1..Len(unique_chords) :
            i # j => unique_chords[i] # unique_chords[j]

\* C1's case: a chord was recorded more than once, and the result names
\* several chords.
DuplicatesDropped ==
  /\ Done
  /\ Len(unique_chords) >= 2
  /\ Len(positions) > Len(unique_chords)

\* C2: the result lists exactly the recorded chords, in ascending order of
\* the smallest offset each was recorded at, and for equal smallest offsets
\* in the order of the layers that recorded them there.
OrderedByFirstOffset ==
  Done =>
    /\ Range(unique_chords) = ChordsOf(positions)
    /\ \A i, j \in 1..Len(unique_chords) :
         i < j => Before(unique_chords[i], unique_chords[j])

\* C2's case: two different chords recorded first at the same offset, and a
\* third chord recorded first at another offset.
TieAndOrder ==
  /\ Done
  /\ \E i, j, k \in 1..Len(unique_chords) :
       /\ i < j
       /\ MinOff(unique_chords[i]) = MinOff(unique_chords[j])
       /\ MinOff(unique_chords[k]) # MinOff(unique_chords[i])

\* C3: extract_chords applied to its own result, joined by single spaces,
\* returns that result.
Idempotent == Done => extract_chords(Join(unique_chords)) = unique_chords

\* C4: extract_chords never raises, and returns the empty list for the
\* empty string.
NeverRaises ==
  /\ pc # "raised"
  /\ (Done /\ transcript = <<>>) => unique_chords = <<>>

\* 'maj' occurs in chord c only right before a digit.
MajOnlyBeforeNumber(c) ==
  \A k \in 1..Len(c) :
    (k + 2 <= Len(c) /\ SubSeq(c, k, k + 2) = W_maj) => IsDigit(At(c, k + 3))

\* 'min' occurs nowhere in chord c.
NoMin(c) == \A k \in 1..Len(c) : k + 2 <= Len(c) => SubSeq(c, k, k + 2) # W_min

\* C5: no chord symbol built by any layer ends in 'maj' or 'min'; 'maj' is
\* kept only when a number follows it, and 'min' is never kept.
NoBareMajMin ==
  \A c \in ChordsOf(positions) \cup Range(unique_chords) :
    /\ ~EndsWith(c, W_maj)
    /\ ~EndsWith(c, W_min)
    /\ MajOnlyBeforeNumber(c)
    /\ NoMin(c)

\* C5's case: the text holds an inline 'maj' or 'min' with no number after
\* it, a spoken one, and the call returned chords for them.
MajMinRewritten ==
  /\ Done
  /\ \E m \in Range(FindIter("D", text)) : LowerStr(m.quality) \in {W_maj, W_min}
  /\ \E m \in Range(FindIter("A", text)) \cup Range(FindIter("C", text)) :
       LowerStr(m.quality) \in {W_maj, W_min}
  /\ Len(unique_chords) >= 2

\* The ASCII characters: everything of the model but the long s and the dashes.
IsAscii(t) == \A k \in 1..Len(t) : t[k] \notin {LongS, EnDash, EmDash}

\* An upper-case note letter, then lower-case letters, '#' and digits.
WellCased(c) ==
  /\ Len(c) >= 1
  /\ c[1] \in {"A","B","C","D","E","F","G"}
  /\ \A k \in 2..Len(c) : IsLower(c[k]) \/ IsDigit(c[k]) \/ c[k] = "#"

\* C6: on an ASCII transcript, the result is the result on the transcript
\* lower-cased and on the transcript upper-cased, and every symbol is an
\* upper-case note letter followed by lower-case letters, '#' and digits.
CaseInsensitive ==
  (Done /\ IsAscii(transcript)) =>
    /\ extract_chords(LowerStr(transcript)) = unique_chords
    /\ extract_chords(UpperStr(transcript)) = unique_chords
    /\ \A c \in Range(unique_chords) : WellCased(c)

\* C6's case: an ASCII transcript of mixed case with chords in it.
MixedCaseExtracted ==
  /\ Done
  /\ IsAscii(transcript)
  /\ LowerStr(transcript) # transcript
  /\ UpperStr(transcript) # transcript
  /\ \E k \in 2..Len(transcript) : IsUpper(transcript[k])
  /\ unique_chords # <<>>

\* C7: a request whose temporary file was created has, when it is answered,
\* deleted that file exactly once, and the file is gone.
TempFileDeletedOnce ==
  \A r \in Requests :
    (hpc[r] = "done" /\ r \in created) => (r \notin tmp_files /\ unlinks[r] = 1)

\* C8: no two records of the layers share a start offset and differ in chord.
OneChordPerOffset ==
  \A i, j \in 1..Len(positions) :
    positions[i].pos = positions[j].pos => positions[i].chord = positions[j].chord

\* Layer C skips match m: its note is in flat_sharp_notes.
PhraseSkipped(m) == LowerStr(Capitalize(m.note)) \in flat_sharp_notes

\* Match m lies inside the span of a match of Layer A or Layer B.
InsideModifierMatch(m) ==
  \E n \in Range(FindIter("A", text)) \cup Range(FindIter("B", text)) :
    n.start <= m.start /\ m.end <= n.end

\* C9: every Layer C match that is skipped lies inside a Layer A or Layer B
\* match, and every '<note> minor' phrase is emitted as note + 'm'.
PhraseSkippedOnlyWhenResolved ==
  /\ pc \in {"D", "sort", "done"} =>
       \A m \in Range(FindIter("C", text)) :
         PhraseSkipped(m) => InsideModifierMatch(m)
  /\ Done =>
       \A m \in Range(FindIter("C", text)) :
         (LowerStr(m.quality) \in {W_minor, W_min} /\ m.number = <<>>)
           => (Capitalize(m.note) \o <<"m">>) \in Range(unique_chords)

\* A word-bounded note letter at index i of t, with no inline accidental and
\* no flat/sharp word or quality word after it.
LoneNoteAt(t, i) ==
  LET j == SkipSpaces(t, i + 1)
  IN  /\ IsNoteLetter(At(t, i))
      /\ WordBoundary(t, i)
      /\ WordBoundary(t, i + 1)
      /\ At(t, i + 1) # "#"
      /\ ~(/\ j > i + 1
           /\ \/ ModifierAt(t, j, 1) # <<>>
              \/ \E k \in 1..Len(QualityWords) : MatchesLit(t, j, QualityWords[k]))

\* C10: every lone note letter of the text is in the result, upper-cased.
LoneNoteEmitted ==
  Done => \A i \in 1..Len(text) :
            LoneNoteAt(text, i) => <<ToUpper(text[i])>> \in Range(unique_chords)

====
